---- MODULE Spec2Model ----
(***************************************************************************)
(* SimpleDAQ (src/SimpleDAQ.py): the serial read loop (_read_serial), the  *)
(* periodic tick (_update), the setpoint resend (_send_setpoints), the     *)
(* periodic save (_save_files) and the exit handler (_exit_program).       *)
(*                                                                         *)
(* Two threads: the reader thread runs _read_serial; the Tk main thread    *)
(* runs _update (one call per pending `after` timer) and _exit_program.    *)
(* Numbers are exact integers in thousandths (milli-units); GUI entry      *)
(* texts are in ten-thousandths and are rounded to thousandths by the      *)
(* tick.  Plotting and the status label are not modelled.                  *)
(***************************************************************************)
EXTENDS Integers, Sequences, FiniteSets, TLC

VARIABLES
    \* ---- shared between the threads ----
    serial_data_packet,  \* self.serial_data_packet: the latest raw line ("" = NoLine)
    serial_connected,    \* self.serial_connected
    lockHolder,          \* who holds self.lock: "none", "reader", "main"
    exit_signal,         \* self.exit_signal (threading.Event)
    ser,                 \* self.ser: "open" or "closed"
    \* ---- reader thread ----
    rpc,                 \* position of _read_serial
    rline,               \* the local ser_data of _read_serial
    linesRead,           \* non-empty lines handed out by readline so far
    \* ---- main thread ----
    mpc,                 \* position of the main thread
    pending,             \* number of armed root.after(..., self._update) timers
    ticks,               \* ticks started so far (also the abstract run_duration)
    tickRaw,             \* the local ser_data of _update, as read from the slot
    entries,             \* texts of the GUI setpoint entries (name -> entry)
    edits,               \* user edits made so far
    setpoints,           \* self.setpoints (name -> value)
    data_channels,       \* self.data_channels (channel -> sequence of values)
    time_data,           \* self.time_data
    log,                 \* self.log
    elapsed,             \* time.time() - self.last_save_time at the last tick, in
                         \* seconds, capped at SaveInterval; a tick takes TimeStep
    csvFile,             \* contents of datafilepath as last written
    logFile,             \* contents of logfilepath as last written
    sent,                \* payloads written to the device, in order
    stopClosed,          \* _exit_program has closed the handle
    \* ---- history, for stating the properties ----
    lastWritten,         \* the last line the reader stored in the slot
    writeSinceRead,      \* a slot write happened after the last tick read
    openFailed,          \* an Open attempt of the current reconnect spin has failed
    everDisc,            \* the handler of line 170 has run at least once
    tickStart            \* lengths of log and sent when the current tick started

vars == << serial_data_packet, serial_connected, lockHolder, exit_signal, ser,
           rpc, rline, linesRead, mpc, pending, ticks, tickRaw,
           entries, edits, setpoints, data_channels, time_data, log, elapsed,
           csvFile, logFile, sent, stopClosed, lastWritten, writeSinceRead,
           openFailed, everDisc, tickStart >>

----------------------------------------------------------------------------
(* Bounds of the model *)
MaxEvents == 3
TimeStep == 5

(* Program constants *)
SaveInterval == 10
TolDen == 1000
LowBoundMicro == 1
MicroPerMilli == 1000
MilliPerUnit == 1000
TenthsPerMilli == 10

----------------------------------------------------------------------------
(* The lines received, the ticks fired and the edits made so far: the     *)
(* model stops taking such events at MaxEvents of them.                     *)
Events == linesRead + ticks + edits

(* Values *)
Num(n) == [t |-> "num", n |-> n]
Str == [t |-> "str", n |-> 0]
None == [t |-> "none", n |-> 0]

Abs(x) == IF x < 0 THEN -x ELSE x
Min(a, b) == IF a < b THEN a ELSE b

(* mc_data_dict.keys() and the channel order of the loops over it *)
ChannelOrder == << 0, 1 >>
Channels == { ChannelOrder[i] : i \in 1..Len(ChannelOrder) }

(* setpoint_dict.keys() in insertion order *)
SetpointOrder == << "Pressure", "Valve" >>
Names == { SetpointOrder[i] : i \in 1..Len(SetpointOrder) }

(* self._setpoint_mapping = {k: i for i, k in enumerate(setpoint_dict.keys())} *)
SetpointMapping(k) == (CHOOSE i \in 1..Len(SetpointOrder) : SetpointOrder[i] = k) - 1

(* str(i) of a small non-negative integer *)
Digits == << "0", "1", "2", "3", "4", "5", "6", "7", "8", "9" >>
IntToStr(i) == Digits[i + 1]

(* keys of a parsed map literal: an int key and a str key are different keys *)
IntKey(i) == [t |-> "int", s |-> IntToStr(i)]
StrKey(i) == [t |-> "str", s |-> IntToStr(i)]

----------------------------------------------------------------------------
(* Raw lines the device can send.  A line is what _parse_serial_data makes  *)
(* of it: wf = it splits at two delimiters and both map literals evaluate;  *)
(* dat = the keys of the data map; val = the reading; sp = the setpoint     *)
(* map, from keys to values; msg = the log segment ("" when empty).         *)
Line(id, wf, dat, val, sp, msg) ==
    [id |-> id, wf |-> wf, dat |-> dat, val |-> val, sp |-> sp, msg |-> msg]

(* the setpoint map literal with keys K(i) for the indices i of vals *)
SpMap(K(_), vals) ==
    [k \in { K(i) : i \in DOMAIN vals } |->
        vals[CHOOSE i \in DOMAIN vals : K(i) = k]]

(* the initial self.serial_data_packet = "" *)
NoLine == Line(0, FALSE, {}, 0, << >>, "")

Lines ==
    { Line(1, TRUE, {0, 1}, 11, SpMap(StrKey, (0 :> Num(4002)) @@ (1 :> Num(1))), "m"),
      Line(2, TRUE, {0, 1}, 12, SpMap(StrKey, (0 :> Num(-4002)) @@ (1 :> Num(2))), ""),
      Line(3, TRUE, {0, 1}, 13, SpMap(IntKey, (0 :> Num(4005)) @@ (1 :> Num(0))), ""),
      Line(4, TRUE, {0}, 14, SpMap(StrKey, (0 :> Num(4005)) @@ (1 :> Num(0))), "m"),
      Line(5, FALSE, {}, 0, << >>, ""),
      Line(6, TRUE, {0, 1}, 16, SpMap(StrKey, (0 :> None) @@ (1 :> Num(2))), ""),
      Line(7, TRUE, {0, 1}, 17, SpMap(StrKey, (1 :> Num(2))), "") }

(* Initial setpoint configurations (setpoint_dict) *)
Configs ==
    { (("Pressure" :> Num(4000)) @@ ("Valve" :> Num(0))),
      (("Pressure" :> Num(4000)) @@ ("Valve" :> Str)) }

(* GUI entry texts: a numeric text (in ten-thousandths) or an unparsable one *)
Txt(n) == [t |-> "num", n |-> n]
BadTxt == [t |-> "bad", n |-> 0]
EntryTexts == { Txt(-40004) }

(* entry.insert(0, str(value)): the text a configured value is shown as *)
EntryOf(v) == IF v.t = "num" THEN Txt(v.n * TenthsPerMilli) ELSE BadTxt

(* round(x, 3) of a value given in ten-thousandths: nearest thousandth,    *)
(* a tie going to the even one                                             *)
Round3(n) ==
    LET q == n \div TenthsPerMilli
        r == n % TenthsPerMilli
    IN  IF 2 * r < TenthsPerMilli THEN q
        ELSE IF 2 * r > TenthsPerMilli THEN q + 1
        ELSE IF q % 2 = 0 THEN q ELSE q + 1

----------------------------------------------------------------------------
(* _parse_serial_data: (data, setpoints, log) of a line, or                 *)
(* (None, None, error text) when the split or a literal_eval raises         *)
ParseSerialData(line) ==
    IF line.wf
    THEN [ok |-> TRUE, dat |-> line.dat, val |-> line.val, sp |-> line.sp, msg |-> line.msg]
    ELSE [ok |-> FALSE, dat |-> {}, val |-> 0, sp |-> << >>, msg |-> "Unexpected Error"]

(* for k in mc_data_dict.keys(): data_channels[k].append(ser_data[k])       *)
(* from the i-th channel on; ser_data[k] raises when ser_data is None or    *)
(* lacks k, and the appends made before that stay                           *)
RECURSIVE AppendChannels(_, _, _)
AppendChannels(i, dc, p) ==
    IF i > Len(ChannelOrder) THEN [dc |-> dc, ok |-> TRUE]
    ELSE LET k == ChannelOrder[i]
         IN  IF ~p.ok \/ k \notin p.dat THEN [dc |-> dc, ok |-> FALSE]
             ELSE AppendChannels(i + 1, [dc EXCEPT ![k] = Append(@, p.val + k)], p)

(* the setpoint entries loop: a numeric text replaces the desired value,    *)
(* rounded; float() of any other text raises ValueError, which is passed    *)
UpdateSetpoints(sp, en) ==
    [k \in DOMAIN sp |->
        IF en[k].t = "num" THEN Num(Round3(en[k].n)) ELSE sp[k]]

(* err > self.setpoint_check_precision, with err as lines 271-276 compute it *)
ErrExceeds(v, r) ==
    IF v.t = "str" THEN FALSE
    ELSE IF v.n * MicroPerMilli > LowBoundMicro
         THEN Abs(r.n - v.n) * TolDen > v.n
         ELSE Abs(r.n - v.n) * TolDen > MilliPerUnit

(* the setpoint check loop from the i-th desired setpoint on: the first     *)
(* mismatch breaks the loop, a key the device map lacks raises KeyError     *)
RECURSIVE Reconcile(_, _, _)
Reconcile(i, sp, esp32_setpoints) ==
    IF i > Len(SetpointOrder)
    THEN [res |-> "sync", name |-> "", v |-> None, r |-> None]
    ELSE LET k == SetpointOrder[i]
             key == StrKey(SetpointMapping(k))
         IN  IF key \notin DOMAIN esp32_setpoints
             THEN [res |-> "raise", name |-> k, v |-> sp[k], r |-> None]
             ELSE LET esp32_value == esp32_setpoints[key]
                  IN  IF esp32_value.t = "none"
                      THEN Reconcile(i + 1, sp, esp32_setpoints)
                      ELSE IF ErrExceeds(sp[k], esp32_value)
                           THEN [res |-> "mismatch", name |-> k, v |-> sp[k],
                                 r |-> esp32_value]
                           ELSE Reconcile(i + 1, sp, esp32_setpoints)

(* the key _send_setpoints gives a setpoint in the JSON object: json.dumps  *)
(* writes the integer key _setpoint_mapping[k] as a string of digits        *)
PayloadKeyByName(k) == k
PayloadKey(k) == IntToStr(SetpointMapping(k))

(* _send_setpoints: json.dumps(integer_setpoints).encode() + b'\n'          *)
SendSetpointsPayload(sp) ==
    [obj |-> [j \in { PayloadKey(k) : k \in DOMAIN sp } |->
                 sp[CHOOSE k \in DOMAIN sp : PayloadKey(k) = j]],
     nl |-> 1]
NoPayload == [obj |-> << >>, nl |-> 0]

(* an entry of self.log *)
LogEntry(k, a, v, r, p) == [k |-> k, a |-> a, v |-> v, r |-> r, p |-> p]
LogNote(k, a) == LogEntry(k, a, None, None, NoPayload)

NoCsv == [w |-> FALSE, t |-> << >>, d |-> [k \in Channels |-> << >>]]

----------------------------------------------------------------------------
(* The state after __init__, start_gui and _define_save_files: the port is  *)
(* open, the log file holds the first entry, the reader thread is started   *)
(* and the first tick is armed.                                             *)
Init ==
    /\ serial_data_packet = NoLine
    /\ serial_connected = FALSE
    /\ lockHolder = "none"
    /\ exit_signal = FALSE
    /\ ser = "open"
    /\ rpc = "loop"
    /\ rline = NoLine
    /\ linesRead = 0
    /\ mpc = "idle"
    /\ pending = 1
    /\ ticks = 0
    /\ tickRaw = NoLine
    /\ setpoints \in Configs
    /\ entries = [k \in Names |-> EntryOf(setpoints[k])]
    /\ edits = 0
    /\ data_channels = [k \in Channels |-> << >>]
    /\ time_data = << >>
    /\ log = << LogNote("started", ""), LogNote("savepath", "") >>
    /\ elapsed = SaveInterval
    /\ csvFile = NoCsv
    /\ logFile = << LogNote("started", "") >>
    /\ sent = << >>
    /\ stopClosed = FALSE
    /\ lastWritten = NoLine
    /\ writeSinceRead = FALSE
    /\ openFailed = FALSE
    /\ everDisc = FALSE
    /\ tickStart = [log |-> 0, sent |-> 0]

mainVars == << mpc, pending, ticks, tickRaw, entries, edits, setpoints,
               data_channels, time_data, log, elapsed, csvFile, logFile, sent,
               stopClosed, tickStart >>

----------------------------------------------------------------------------
(* The reader thread: _read_serial *)

(* line 159: while not self.exit_signal.is_set() *)
RLoop ==
    /\ rpc = "loop"
    /\ rpc' = IF exit_signal THEN "done" ELSE "read"
    /\ UNCHANGED << serial_data_packet, serial_connected, lockHolder, exit_signal,
                    ser, rline, linesRead, lastWritten, writeSinceRead, openFailed,
                    everDisc >>
    /\ UNCHANGED mainVars

(* line 161: readline().decode().strip() gives a non-empty line *)
RReadLine ==
    /\ rpc = "read"
    /\ ser = "open"
    /\ Events < MaxEvents
    /\ \E l \in Lines : rline' = l
    /\ linesRead' = linesRead + 1
    /\ rpc' = "store"
    /\ UNCHANGED << serial_data_packet, serial_connected, lockHolder, exit_signal,
                    ser, lastWritten, writeSinceRead, openFailed, everDisc >>
    /\ UNCHANGED mainVars

(* lines 161-162: the line is empty after strip(): nothing is stored *)
RReadEmpty ==
    /\ rpc = "read"
    /\ ser = "open"
    /\ rpc' = "loop"
    /\ UNCHANGED << serial_data_packet, serial_connected, lockHolder, exit_signal,
                    ser, rline, linesRead, lastWritten, writeSinceRead, openFailed,
                    everDisc >>
    /\ UNCHANGED mainVars

(* line 161: the bytes are not UTF-8: decode raises UnicodeDecodeError,     *)
(* which line 168 does not catch, and the thread ends                       *)
RReadBadBytes ==
    /\ rpc = "read"
    /\ ser = "open"
    /\ rpc' = "crashed"
    /\ UNCHANGED << serial_data_packet, serial_connected, lockHolder, exit_signal,
                    ser, rline, linesRead, lastWritten, writeSinceRead, openFailed,
                    everDisc >>
    /\ UNCHANGED mainVars

(* lines 161, 168: readline raises SerialException *)
RReadError ==
    /\ rpc = "read"
    /\ rpc' = "except"
    /\ UNCHANGED << serial_data_packet, serial_connected, lockHolder, exit_signal,
                    ser, rline, linesRead, lastWritten, writeSinceRead, openFailed,
                    everDisc >>
    /\ UNCHANGED mainVars

(* line 164: what the slot holds after the store *)
StoreSlotFirstWins(old, new) == IF old = NoLine THEN new ELSE old
StoreSlot(old, new) == new

(* lines 163-165: with self.lock: store the line, set connected *)
RStore ==
    /\ rpc = "store"
    /\ lockHolder = "none"
    /\ serial_data_packet' = StoreSlot(serial_data_packet, rline)
    /\ serial_connected' = TRUE
    /\ lastWritten' = rline
    /\ writeSinceRead' = TRUE
    /\ rpc' = "rawappend"
    /\ UNCHANGED << lockHolder, exit_signal, ser, rline, linesRead, openFailed,
                    everDisc >>
    /\ UNCHANGED mainVars

(* lines 166-167: append the line to the raw serial file; open or write     *)
(* raising OSError is not caught by line 168 and ends the thread            *)
RRawAppend ==
    /\ rpc = "rawappend"
    /\ \E ok \in BOOLEAN : rpc' = IF ok THEN "loop" ELSE "crashed"
    /\ UNCHANGED << serial_data_packet, serial_connected, lockHolder, exit_signal,
                    ser, rline, linesRead, lastWritten, writeSinceRead, openFailed,
                    everDisc >>
    /\ UNCHANGED mainVars

(* line 170: the value the handler gives self.serial_connected *)
ExceptKeepsConnected(c) == c
ExceptConnected(c) == FALSE

(* line 169: with self.lock: the handler waits until the lock is free *)
ExceptNoLock == TRUE
ExceptLockFree == lockHolder = "none"

(* lines 168-170: the handler sets connected False under the lock *)
RExcept ==
    /\ rpc = "except"
    /\ ExceptLockFree
    /\ serial_connected' = ExceptConnected(serial_connected)
    /\ everDisc' = TRUE
    /\ openFailed' = FALSE
    /\ rpc' = "spin"
    /\ UNCHANGED << serial_data_packet, lockHolder, exit_signal, ser, rline,
                    linesRead, lastWritten, writeSinceRead >>
    /\ UNCHANGED mainVars

(* line 171: while not self.serial_connected (the stop signal is not read) *)
RSpinTest ==
    /\ rpc = "spin"
    /\ rpc' = IF ~serial_connected THEN "reopen" ELSE "loop"
    /\ UNCHANGED << serial_data_packet, serial_connected, lockHolder, exit_signal,
                    ser, rline, linesRead, lastWritten, writeSinceRead, openFailed,
                    everDisc >>
    /\ UNCHANGED mainVars

(* lines 173-174, 177-178: close the handle, then serial.Serial(port,     *)
(* baud) returns a new, open handle, or raises and the closed one stays     *)
RReopen ==
    /\ rpc = "reopen"
    /\ \E ok \in BOOLEAN :
        IF ok
        THEN /\ ser' = "open"
             /\ rpc' = "setconn"
             /\ openFailed' = openFailed
        ELSE /\ ser' = "closed"
             /\ rpc' = "spin"
             /\ openFailed' = TRUE
    /\ UNCHANGED << serial_data_packet, serial_connected, lockHolder, exit_signal,
                    rline, linesRead, lastWritten, writeSinceRead, everDisc >>
    /\ UNCHANGED mainVars

(* lines 175-176: with self.lock: self.serial_connected = True *)
RSetConn ==
    /\ rpc = "setconn"
    /\ lockHolder = "none"
    /\ serial_connected' = TRUE
    /\ rpc' = "spin"
    /\ UNCHANGED << serial_data_packet, lockHolder, exit_signal, ser, rline,
                    linesRead, lastWritten, writeSinceRead, openFailed, everDisc >>
    /\ UNCHANGED mainVars

Reader == \/ RLoop \/ RReadLine \/ RReadEmpty \/ RReadBadBytes \/ RReadError
          \/ RStore \/ RRawAppend \/ RExcept \/ RSpinTest \/ RReopen \/ RSetConn

readerVars == << rpc, rline, linesRead, lastWritten, openFailed, everDisc >>

----------------------------------------------------------------------------
(* The main thread: GUI events, _update and _exit_program *)

(* the user types a text into a setpoint entry *)
UserEdit ==
    /\ mpc = "idle"
    /\ Events < MaxEvents
    /\ \E k \in Names, e \in EntryTexts :
        /\ entries[k] # e
        /\ entries' = [entries EXCEPT ![k] = e]
    /\ edits' = edits + 1
    /\ UNCHANGED << serial_data_packet, serial_connected, lockHolder, exit_signal,
                    ser, writeSinceRead, mpc, pending, ticks, tickRaw, setpoints,
                    data_channels, time_data, log, elapsed, csvFile, logFile, sent,
                    stopClosed, tickStart >>
    /\ UNCHANGED readerVars

(* lines 306 and 107: the timers one call of _update arms on its way out *)
RearmOnSuccessOnly(raised) == IF raised THEN 0 ELSE 1
Rearm(raised) == 1

(* lines 215-281: a pending timer fires; with self.lock: read the slot;    *)
(* then parse, append the samples, save when due (_save_files raises when   *)
(* the columns differ in length or a file cannot be written, and then       *)
(* writes nothing), take the entries, check the setpoints; lines 301-306    *)
(* when something raised.  All but the slot read is local to this thread.   *)
TickBody ==
    /\ mpc = "idle"
    /\ pending > 0
    /\ Events < MaxEvents
    /\ lockHolder = "none"
    /\ ticks' = ticks + 1
    /\ tickRaw' = serial_data_packet
    /\ writeSinceRead' = FALSE
    /\ tickStart' = [log |-> Len(log), sent |-> Len(sent)]
    /\ \E saveOK \in BOOLEAN :
        LET p == ParseSerialData(serial_data_packet)
            app == AppendChannels(1, data_channels, p)
            td1 == IF app.ok THEN Append(time_data, ticks') ELSE time_data
            now == Min(elapsed + TimeStep, SaveInterval)
            due == app.ok /\ now >= SaveInterval
            log1 == IF due THEN Append(log, LogNote("saved", "")) ELSE log
            aligned == \A k \in Channels : Len(app.dc[k]) = Len(td1)
            saveRaise == due /\ (~aligned \/ ~saveOK)
            reached == app.ok /\ ~saveRaise
            sp1 == IF reached THEN UpdateSetpoints(setpoints, entries) ELSE setpoints
            rc == IF reached THEN Reconcile(1, sp1, p.sp)
                  ELSE [res |-> "skipped", name |-> "", v |-> None, r |-> None]
            log2 == IF rc.res = "mismatch"
                    THEN Append(log1, LogEntry("mismatch", rc.name, rc.v, rc.r, NoPayload))
                    ELSE log1
            raised == ~reached \/ rc.res = "raise"
            cause == IF ~app.ok THEN "append" ELSE IF saveRaise THEN "save" ELSE "key"
        IN  /\ data_channels' = app.dc
            /\ time_data' = td1
            /\ csvFile' = IF due /\ ~saveRaise
                          THEN [w |-> TRUE, t |-> td1, d |-> app.dc] ELSE csvFile
            /\ logFile' = IF due /\ ~saveRaise THEN log1 ELSE logFile
            /\ elapsed' = IF due /\ ~saveRaise THEN 0 ELSE now
            /\ setpoints' = sp1
            /\ log' = IF raised THEN Append(log2, LogNote("unhandled", cause)) ELSE log2
            /\ pending' = IF raised THEN pending - 1 + Rearm(TRUE) ELSE pending - 1
            /\ mpc' = IF raised THEN "idle"
                      ELSE IF rc.res = "mismatch" THEN "pushlock" ELSE "status"
    /\ UNCHANGED << serial_data_packet, serial_connected, lockHolder, exit_signal,
                    ser, entries, edits, sent, stopClosed >>
    /\ UNCHANGED readerVars

(* lines 283-284: if not matching_setpoints: with self.lock (acquire) *)
TickPushLock ==
    /\ mpc = "pushlock"
    /\ lockHolder = "none"
    /\ lockHolder' = "main"
    /\ mpc' = "push"
    /\ UNCHANGED << serial_data_packet, serial_connected, exit_signal, ser,
                    writeSinceRead, pending, ticks, tickRaw, entries, edits,
                    setpoints, data_channels, time_data, log, elapsed, csvFile,
                    logFile, sent, stopClosed, tickStart >>
    /\ UNCHANGED readerVars

(* line 285: if self.serial_connected *)
PushAlways(c) == TRUE
PushAllowed(c) == c

(* line 285, under the lock: if self.serial_connected; when it is not, the  *)
(* with block ends and the lock is released                                 *)
TickPush ==
    /\ mpc = "push"
    /\ lockHolder = "main"
    /\ IF PushAllowed(serial_connected)
       THEN /\ mpc' = "write"
            /\ lockHolder' = lockHolder
       ELSE /\ mpc' = "status"
            /\ lockHolder' = "none"
    /\ UNCHANGED << serial_data_packet, serial_connected, exit_signal, ser,
                    writeSinceRead, pending, ticks, tickRaw, entries, edits,
                    setpoints, data_channels, time_data, log, elapsed, csvFile,
                    logFile, sent, stopClosed, tickStart >>
    /\ UNCHANGED readerVars

(* lines 286-287, still under the lock: _send_setpoints writes the payload  *)
(* and the tick logs it; ser.write raises on a closed handle or a failing   *)
(* device, and then lines 301-306 run; the lock is released on the way out  *)
TickWrite ==
    /\ mpc = "write"
    /\ lockHolder = "main"
    /\ lockHolder' = "none"
    /\ \E wok \in BOOLEAN :
         LET payload == SendSetpointsPayload(setpoints)
         IN  IF wok /\ ser = "open"
             THEN /\ sent' = Append(sent, payload)
                  /\ log' = Append(log, LogEntry("sent", "", None, None, payload))
                  /\ pending' = pending
                  /\ mpc' = "status"
             ELSE /\ sent' = sent
                  /\ log' = Append(log, LogNote("unhandled", "write"))
                  /\ pending' = pending + Rearm(TRUE)
                  /\ mpc' = "idle"
    /\ UNCHANGED << serial_data_packet, serial_connected, exit_signal, ser,
                    writeSinceRead, ticks, tickRaw, entries, edits, setpoints,
                    data_channels, time_data, elapsed, csvFile, logFile,
                    stopClosed, tickStart >>
    /\ UNCHANGED readerVars

(* lines 291-298 and 306: with self.lock: note a disconnected port; then    *)
(* append the device's log message when not empty; re-arm                   *)
TickStatus ==
    /\ mpc = "status"
    /\ lockHolder = "none"
    /\ LET log1 == IF serial_connected THEN log
                   ELSE Append(log, LogNote("disconnected", ""))
           msg == ParseSerialData(tickRaw).msg
       IN  log' = IF msg # "" THEN Append(log1, LogNote("device", msg)) ELSE log1
    /\ pending' = pending + Rearm(FALSE)
    /\ mpc' = "idle"
    /\ UNCHANGED << serial_data_packet, serial_connected, lockHolder, exit_signal,
                    ser, writeSinceRead, ticks, tickRaw, entries, edits, setpoints,
                    data_channels, time_data, elapsed, csvFile, logFile, sent,
                    stopClosed, tickStart >>
    /\ UNCHANGED readerVars

(* line 309: the Exit button: self.exit_signal.set() *)
ExitSignal ==
    /\ mpc = "idle"
    /\ exit_signal' = TRUE
    /\ mpc' = "join"
    /\ UNCHANGED << serial_data_packet, serial_connected, lockHolder, ser,
                    writeSinceRead, pending, ticks, tickRaw, entries, edits,
                    setpoints, data_channels, time_data, log, elapsed, csvFile,
                    logFile, sent, stopClosed, tickStart >>
    /\ UNCHANGED readerVars

(* line 310: self.serial_thread.join() returns when the thread has ended *)
JoinNoWait == TRUE
JoinReturns == rpc \in {"done", "crashed"}

(* lines 310-311: join, then append the exit entry *)
ExitJoin ==
    /\ mpc = "join"
    /\ JoinReturns
    /\ log' = Append(log, LogNote("exited", ""))
    /\ mpc' = "flush"
    /\ UNCHANGED << serial_data_packet, serial_connected, lockHolder, exit_signal,
                    ser, writeSinceRead, pending, ticks, tickRaw, entries, edits,
                    setpoints, data_channels, time_data, elapsed, csvFile, logFile,
                    sent, stopClosed, tickStart >>
    /\ UNCHANGED readerVars

(* lines 312-314: rewrite the log file *)
ExitFlush ==
    /\ mpc = "flush"
    /\ logFile' = log
    /\ mpc' = "closing"
    /\ UNCHANGED << serial_data_packet, serial_connected, lockHolder, exit_signal,
                    ser, writeSinceRead, pending, ticks, tickRaw, entries, edits,
                    setpoints, data_channels, time_data, log, elapsed, csvFile,
                    sent, stopClosed, tickStart >>
    /\ UNCHANGED readerVars

(* lines 315-317: close the handle, quit and destroy the window (the        *)
(* armed timer dies with it)                                                *)
ExitClose ==
    /\ mpc = "closing"
    /\ ser' = "closed"
    /\ stopClosed' = TRUE
    /\ pending' = 0
    /\ mpc' = "stopped"
    /\ UNCHANGED << serial_data_packet, serial_connected, lockHolder, exit_signal,
                    writeSinceRead, ticks, tickRaw, entries, edits, setpoints,
                    data_channels, time_data, log, elapsed, csvFile, logFile, sent,
                    tickStart >>
    /\ UNCHANGED readerVars

Main == \/ UserEdit \/ TickBody \/ TickPushLock \/ TickPush \/ TickWrite
        \/ TickStatus \/ ExitSignal \/ ExitJoin \/ ExitFlush \/ ExitClose

Next == Reader \/ Main

Spec == Init /\ [][Next]_vars

----------------------------------------------------------------------------
(* Vocabulary of the properties *)

ReaderExited == rpc \in {"done", "crashed"}
SpinPcs == {"spin", "reopen", "setconn"}

IsPrefix(a, b) == Len(a) <= Len(b) /\ \A i \in 1..Len(a) : a[i] = b[i]

(* what the current (or last) tick has done so far *)
TickWrites == Len(sent) - tickStart.sent
TickLogged(kind) == { i \in (tickStart.log + 1)..Len(log) : log[i].k = kind }
TickEnded == mpc = "idle" /\ ticks > 0

(* the number of 'Passed new setpoints' entries of a log *)
SentLogs(l) == Cardinality({ i \in 1..Len(l) : l[i].k = "sent" })

(* the GUI entries hold nothing the tick has not taken yet *)
DesiredTaken == UpdateSetpoints(setpoints, entries) = setpoints

(* the link was set Connected before the last tick read the slot, and has   *)
(* not been set Disconnected since the program started                      *)
ConnectedAllTick == tickRaw # NoLine /\ ~everDisc /\ serial_connected

(* the reconciliation error of section 4.3 of the specification: relative   *)
(* when |v| > 1e-6, absolute otherwise, against the tolerance               *)
SpecErrExceeds(v, r) ==
    IF Abs(v.n) * MicroPerMilli > LowBoundMicro
    THEN Abs(r.n - v.n) * TolDen > Abs(v.n)
    ELSE Abs(r.n - v.n) * TolDen > MilliPerUnit

(* setpoint k is numeric and the map m reports, under key K(wire index),    *)
(* a number out of tolerance                                                *)
OutOfTolerance(K(_), m, k) ==
    /\ setpoints[k].t = "num"
    /\ K(SetpointMapping(k)) \in DOMAIN m
    /\ m[K(SetpointMapping(k))].t = "num"
    /\ SpecErrExceeds(setpoints[k], m[K(SetpointMapping(k))])

(* setpoint k is in sync with the map m: a string, or not reported under    *)
(* its wire index, or reported within tolerance                             *)
InSync(m, k) ==
    /\ ~OutOfTolerance(IntKey, m, k)
    /\ ~OutOfTolerance(StrKey, m, k)

(* the first setpoint, in the order of the desired setpoints, for which P *)
FirstName(P(_)) ==
    SetpointOrder[CHOOSE i \in 1..Len(SetpointOrder) :
        /\ P(SetpointOrder[i])
        /\ \A j \in 1..(i - 1) : ~P(SetpointOrder[j])]

----------------------------------------------------------------------------
(* C1: once the stop signal is set, the reconnect spin starts no further    *)
(* Open attempt after a failed one: it polls the stop signal between        *)
(* attempts and the read loop exits without any Open succeeding.            *)
C1_StopEndsSpin ==
    [][(exit_signal /\ rpc = "spin" /\ openFailed /\ ~serial_connected)
          => rpc' # "reopen"]_vars

(* C2: the read loop ends only by observing the stop signal: no outcome of  *)
(* a read (undecodable bytes, a failed raw-file append, ...) ends the       *)
(* thread.                                                                  *)
C2_LoopEndsOnlyOnStop ==
    /\ rpc # "crashed"
    /\ rpc = "done" => exit_signal

(* C3: a read error sets the link Disconnected; it stays Disconnected while *)
(* Open attempts fail and becomes Connected only after an Open succeeded;   *)
(* from the failure to the successful Open the slot is not written; and     *)
(* samples once appended are never removed or changed.                      *)
C3_Reconnect ==
    [][ /\ (rpc = "except" /\ rpc' # rpc) => (rpc' = "spin" /\ ~serial_connected')
        /\ (rpc \in {"reopen", "setconn"}) => ~serial_connected
        /\ (rpc = "reopen" /\ rpc' = "spin") => ~serial_connected'
        /\ (rpc \in SpinPcs /\ serial_connected' # serial_connected)
              => (rpc = "setconn" /\ ser = "open" /\ serial_connected')
        /\ (rpc = "spin" /\ rpc' = "loop") => (serial_connected /\ ser = "open")
        /\ (rpc \in SpinPcs \cup {"except"})
              => serial_data_packet' = serial_data_packet
        /\ IsPrefix(time_data, time_data')
        /\ \A k \in Channels : IsPrefix(data_channels[k], data_channels'[k])
      ]_vars

(* a reconnect after at least one failed Open, with samples in the series *)
C3_Witness ==
    /\ everDisc /\ openFailed /\ serial_connected /\ rpc = "loop"
    /\ Len(time_data) > 0

(* C4: Stop closes the handle only after the read loop has ended: past the  *)
(* join, and with the handle closed by Stop, the reader is not running.     *)
C4_CloseAfterJoin ==
    (stopClosed \/ mpc \in {"flush", "closing", "stopped"}) => ReaderExited

C4_Witness == stopClosed /\ rpc = "done" /\ ser = "closed"

(* C5: a tick read returns the line of the most recent slot write (none     *)
(* before the first write), and a read with no write since the previous     *)
(* read returns what the previous read returned.                            *)
C5_LatestWins ==
    [][ticks' = ticks + 1 =>
          /\ tickRaw' = lastWritten
          /\ (ticks > 0 /\ ~writeSinceRead) => tickRaw' = tickRaw
          /\ serial_data_packet' = serial_data_packet
      ]_vars

(* two lines were stored and then read once: the read has the second *)
C5_Witness ==
    /\ linesRead = 2 /\ rpc \notin {"store"} /\ ticks = 1
    /\ ~writeSinceRead
    /\ tickRaw = rline /\ tickRaw # NoLine

(* C6: a tick whose packet decodes, whose setpoint map is keyed by integer  *)
(* wire index and reports an out-of-tolerance value for a numeric desired   *)
(* setpoint, with the link Connected, sends exactly one write and records   *)
(* exactly one mismatch, naming the first out-of-tolerance setpoint.        *)
C6_DriftPushes ==
    LET Out(k) == OutOfTolerance(IntKey, tickRaw.sp, k)
    IN  ( /\ TickEnded /\ tickRaw.wf /\ DesiredTaken /\ ConnectedAllTick
          /\ \E k \in Names : Out(k) )
        => /\ TickWrites = 1
           /\ Cardinality(TickLogged("mismatch")) = 1
           /\ \A i \in TickLogged("mismatch") : log[i].a = FirstName(Out)

(* C7: every payload written to the device has one entry per configured     *)
(* setpoint, keyed by the digits of its wire index and never by its name,   *)
(* carrying the desired value at the time of the write, and one newline.    *)
C7_FullResend ==
    [][sent' # sent =>
          /\ Len(sent') = Len(sent) + 1
          /\ LET payload == sent'[Len(sent')]
             IN  /\ payload.nl = 1
                 /\ DOMAIN payload.obj = { IntToStr(i - 1) : i \in 1..Len(SetpointOrder) }
                 /\ DOMAIN payload.obj \cap Names = {}
                 /\ \A i \in 1..Len(SetpointOrder) :
                       payload.obj[IntToStr(i - 1)] = setpoints[SetpointOrder[i]]
      ]_vars

(* a payload carrying a desired value the user set after the start *)
C7_Witness ==
    \E i \in 1..Len(sent) : sent[i].obj["0"] = Num(-4000)

(* C8: a tick whose packet decodes and reports every desired setpoint in    *)
(* sync (within tolerance, or a string, or absent) writes nothing to the    *)
(* device and records no mismatch.                                          *)
C8_InSyncNoWrite ==
    ( /\ TickEnded /\ tickRaw.wf /\ DesiredTaken
      /\ \A k \in Names : InSync(tickRaw.sp, k) )
    => /\ TickWrites = 0
       /\ TickLogged("mismatch") = {}

(* C9: a payload is written, and a 'sent' entry logged, only under the lock *)
(* with the link Connected; a push found due while Disconnected writes and  *)
(* logs nothing; and every tick that finds a mismatch goes on to the push   *)
(* decision, whatever earlier ticks did.                                    *)
C9_NoWriteDisconnected ==
    [][ /\ (sent' # sent \/ SentLogs(log') # SentLogs(log))
              => ( /\ mpc = "write" /\ lockHolder = "main" /\ serial_connected
                   /\ Len(sent') = Len(sent) + 1
                   /\ SentLogs(log') = SentLogs(log) + 1 )
        /\ (mpc = "push" /\ ~serial_connected /\ mpc' # mpc)
              => (mpc' = "status" /\ sent' = sent /\ log' = log)
        /\ (ticks' = ticks + 1 /\ TickLogged("mismatch")' # {}) => mpc' = "pushlock"
      ]_vars

(* a push skipped while Disconnected, and the push made on a later tick *)
C9_Witness ==
    \E i, j, n \in 1..Len(log) :
        /\ i < j /\ j < n
        /\ log[i].k = "mismatch" /\ log[j].k = "mismatch" /\ log[n].k = "sent"
        /\ \A m \in i..j : log[m].k # "sent"

(* C10: every tick, however it ends, leaves exactly one next tick armed:    *)
(* between ticks, until Stop closes the window, one timer is pending, and   *)
(* none while a tick runs.                                                  *)
C10_TickRearmed ==
    /\ pending \in {0, 1}
    /\ mpc \in {"idle", "join", "flush", "closing"} => pending = 1
    /\ mpc \in {"pushlock", "push", "write", "status"} => pending = 0

(* a tick that ended in a failed device write, the next tick armed *)
C10_Witness ==
    /\ mpc = "idle" /\ pending = 1 /\ ticks > 0
    /\ log[Len(log)].k = "unhandled" /\ log[Len(log)].a = "write"

----------------------------------------------------------------------------
(* Vocabulary of the later properties *)

(* the value the map m reports for setpoint k under the key the tick looks  *)
(* up (the digits of the wire index), None when the key is missing          *)
Reported(m, k) ==
    IF StrKey(SetpointMapping(k)) \in DOMAIN m
    THEN m[StrKey(SetpointMapping(k))] ELSE None

(* the last tick got as far as the setpoint check: the packet decoded with  *)
(* every channel and the save, if one was due, did not fail                 *)
ReachedCheck ==
    /\ TickEnded /\ tickRaw.wf /\ tickRaw.dat = Channels
    /\ \A i \in TickLogged("unhandled") : log[i].a \notin {"append", "save"}

(* C11: when Stop has completed, the data file holds the whole time series  *)
(* and every channel's whole series, and the log file holds the whole log   *)
(* (stated for a run in which the read loop ended on the stop signal and    *)
(* no tick or save failed).                                                 *)
C11_ShutdownPersists ==
    ( /\ mpc = "stopped" /\ rpc = "done"
      /\ \A i \in 1..Len(log) : log[i].k # "unhandled" ) =>
        /\ logFile = log
        /\ csvFile.t = time_data
        /\ csvFile.d = data_channels

(* C12: the tick reports a mismatch for the first desired setpoint exactly  *)
(* when its error, relative for |v| > 1e-6 and absolute otherwise, exceeds  *)
(* the tolerance: a negative value is compared as its magnitude is.         *)
C12_BranchByMagnitude ==
    LET k == SetpointOrder[1]
        r == Reported(tickRaw.sp, k)
    IN  (ReachedCheck /\ setpoints[k].t = "num" /\ r.t = "num")
        => ( (\E i \in TickLogged("mismatch") : log[i].a = k)
               <=> SpecErrExceeds(setpoints[k], r) )

(* C13: a desired setpoint the device map does not report (key missing or   *)
(* value null) is passed over: the check raises nothing, and a later        *)
(* setpoint reported out of tolerance is still found.                       *)
C13_UnreportedSkipped ==
    ( /\ ReachedCheck
      /\ \A key \in DOMAIN tickRaw.sp : key.t = "str"
      /\ \E k \in Names : Reported(tickRaw.sp, k).t = "none" )
    => /\ \A i \in TickLogged("unhandled") : log[i].a # "key"
       /\ (\E k \in Names : OutOfTolerance(StrKey, tickRaw.sp, k))
             => TickLogged("mismatch") # {}

(* C14: the slot never holds a line that does not decode: once a line was   *)
(* stored, the slot holds a decodable one.                                  *)
C14_SlotDecodes ==
    serial_data_packet # NoLine => ParseSerialData(serial_data_packet).ok

(* C15: a tick run while no line was ever stored changes neither the        *)
(* series, the time sequence, the log, the desired setpoints nor what was   *)
(* sent; one next tick stays armed.                                         *)
C15_TickBeforePacket ==
    [][(ticks' = ticks + 1 /\ lastWritten = NoLine) =>
          /\ data_channels' = data_channels
          /\ time_data' = time_data
          /\ log' = log
          /\ setpoints' = setpoints
          /\ sent' = sent
          /\ pending' = 1
      ]_vars

(* C16: a tick whose packet decodes but lacks a configured channel records  *)
(* the error and still checks the setpoints, still logs a non-empty device  *)
(* message and still saves when the save interval has elapsed.              *)
C16_MissingChannelContinues ==
    (TickEnded /\ tickRaw.wf /\ tickRaw.dat # Channels)
    => /\ TickLogged("unhandled") # {}
       /\ (\E k \in Names : OutOfTolerance(StrKey, tickRaw.sp, k))
             => TickLogged("mismatch") # {}
       /\ tickRaw.msg # "" => TickLogged("device") # {}
       /\ elapsed < SaveInterval \/ TickLogged("saved") # {}

(* C17: the main thread does not hold the lock while it writes to the       *)
(* device, so the read loop never waits for the lock during a device write; *)
(* the reader holds it in none of its read, Open and raw-append steps.      *)
C17_LockNotAcrossIO ==
    /\ mpc = "write" => lockHolder # "main"
    /\ rpc \in {"read", "reopen", "rawappend"} => lockHolder # "reader"
    /\ ~(mpc = "write" /\ lockHolder = "main" /\ rpc \in {"store", "except", "setconn"})

(* C18: whenever the link is Connected the slot holds a packet, and not one *)
(* left from before a reconnect: right after the reconnect, before a new    *)
(* line was read, the link is not yet seen Connected with the old slot.     *)
C18_StateSlotConsistent ==
    serial_connected =>
        /\ serial_data_packet # NoLine
        /\ ~(everDisc /\ rpc = "spin")

(* C19: between ticks every channel's series is as long as the time         *)
(* sequence.                                                                *)
C19_AlignedSeries ==
    mpc = "idle" => \A k \in Channels : Len(data_channels[k]) = Len(time_data)

(* C20: the tick writes to the device only while it holds the lock, after   *)
(* seeing the link Connected, and never while the read loop is closing or   *)
(* re-opening the handle; the read loop replaces the handle only while the  *)
(* link is Disconnected, after its handler set it so.                       *)
C20_NoWriteUnderReplacement ==
    [][ /\ mpc = "write"
             => (lockHolder = "main" /\ serial_connected
                 /\ rpc \notin {"reopen", "setconn"})
        /\ sent' # sent => (mpc = "write" /\ rpc \notin {"reopen", "setconn"})
        /\ (ser' # ser /\ mpc # "closing")
             => (rpc = "reopen" /\ everDisc /\ ~serial_connected /\ mpc # "write")
        /\ rpc \in {"reopen", "setconn"} => ~serial_connected
      ]_vars

(* the tick is about to write on a handle the read loop has replaced, after *)
(* an Open attempt that failed                                              *)
C20_Witness ==
    mpc = "write" /\ everDisc /\ openFailed /\ serial_connected /\ ser = "open"

====
